---- MODULE Spec2Model ----
(***************************************************************************)
(* Model of protobuf_to_bq_schema.py: the conversion of a Pub/Sub topic    *)
(* schema (protobuf text) into a BigQuery schema and two rendered          *)
(* templates.                                                              *)
(*                                                                         *)
(* Text is a sequence of chunks.  A chunk is one character (" ", ";", "/", *)
(* "\n", ".", ...) or a word that the program only ever compares as a      *)
(* whole ("reserved", "Reserved", "x").  The string methods of the program *)
(* (split, strip, rstrip, lower, startswith, join) are operators on such   *)
(* sequences that compute what the Python methods compute.                 *)
(***************************************************************************)
EXTENDS Integers, Sequences, FiniteSets, TLC

\* ------------------------------------------------------------------ bounds
MaxSrcLen == 5      \* chunks in a schema source (rewriter)
MaxIdLen == 5       \* characters in a resource id
MaxClustering == 5  \* entries in a clustering field list
MaxEmitted == 3     \* columns the compiler emits (single calls)
MaxCompiled == 1    \* columns the compiler emits (sequences of runs)
MaxRuns == 3        \* runs of main in a sequence

\* ------------------------------------------------------------- text helpers
\* All sequences over S of length at most n.
SeqsUpTo(S, n) == UNION {[1..k -> S] : k \in 0..n}

Drop(s, n) == SubSeq(s, n + 1, Len(s))
Take(s, n) == SubSeq(s, 1, n)

\* str.startswith(prefix)
StartsWith(s, prefix) ==
    /\ Len(s) >= Len(prefix)
    /\ Take(s, Len(prefix)) = prefix

\* Index of the first occurrence of sep in s, 0 when there is none (str.find + 1).
RECURSIVE FindFrom(_, _, _)
FindFrom(s, sep, i) ==
    IF i + Len(sep) - 1 > Len(s) THEN 0
    ELSE IF SubSeq(s, i, i + Len(sep) - 1) = sep THEN i
    ELSE FindFrom(s, sep, i + 1)

Find(s, sep) == FindFrom(s, sep, 1)

\* str.split(sep): every non-overlapping occurrence, left to right; always at
\* least one segment.
RECURSIVE Split(_, _)
Split(s, sep) ==
    LET i == Find(s, sep)
    IN  IF i = 0 THEN <<s>>
        ELSE <<Take(s, i - 1)>> \o Split(Drop(s, i + Len(sep) - 1), sep)

\* sep.join(parts)
RECURSIVE Join(_, _)
Join(parts, sep) ==
    IF Len(parts) = 0 THEN <<>>
    ELSE IF Len(parts) = 1 THEN parts[1]
    ELSE parts[1] \o sep \o Join(Tail(parts), sep)

\* str.lstrip(chars), str.rstrip(chars), str.strip(chars)
RECURSIVE LStripChars(_, _)
LStripChars(s, chars) ==
    IF Len(s) > 0 /\ s[1] \in chars THEN LStripChars(Tail(s), chars) ELSE s

RECURSIVE RStripChars(_, _)
RStripChars(s, chars) ==
    IF Len(s) > 0 /\ s[Len(s)] \in chars
    THEN RStripChars(Take(s, Len(s) - 1), chars)
    ELSE s

StripChars(s, chars) == LStripChars(RStripChars(s, chars), chars)

\* The whitespace str.strip() removes, as far as it occurs inside a line.
Whitespace == {" "}

\* str.lower(), chunk by chunk.
LowerChunk(c) == IF c = "Reserved" THEN "reserved" ELSE c
Lower(s) == [i \in 1..Len(s) |-> LowerChunk(s[i])]

\* --------------------------------------------------- the annotation rewriter
NL == <<"\n">>
Slashes == <<"/", "/">>
Reserved == <<"reserved">>

\* Template('[(gen_bq_schema.bigquery).type_override = "$type"]').substitute
type_override_template(type) ==
    <<"[(gen_bq_schema.bigquery).type_override = \"">> \o type \o <<"\"]">>

\* The filter of the first comprehension: a line is skipped when its lower-cased
\* text starts with "reserved".
SkipLine(line) == StartsWith(Lower(line), Reserved)

\* lines = [line.split("//") for line in text.split("\n") if not skipped]
SplitLines(text) ==
    LET raw  == Split(text, NL)
        kept == SelectSeq(raw, LAMBDA l : ~SkipLine(l))
    IN  [i \in 1..Len(kept) |-> Split(kept[i], Slashes)]

\* Faulty variant: the trailing ";" of the declaration is not removed.
ProcessLine_KeepSemicolon(line) ==
    IF Len(line) > 1
    THEN StripChars(line[1], Whitespace)
         \o <<" ">>
         \o type_override_template(StripChars(line[2], Whitespace))
         \o <<";">>
    ELSE line[1]

\* One element of processed_lines, from one element of lines.
ProcessLine(line) ==
    IF Len(line) > 1
    THEN RStripChars(StripChars(line[1], Whitespace), {";"})
         \o <<" ">>
         \o type_override_template(StripChars(line[2], Whitespace))
         \o <<";">>
    ELSE line[1]

ProcessLines(ls) == [i \in 1..Len(ls) |-> ProcessLine(ls[i])]

\* ------------------------------------------------------------------- state
VARIABLES
    topic_schema_definition,  \* the argument of generate_bigquery_schema
    lines,                    \* the list built at lines 28-32
    processed_lines,          \* the list built at lines 33-41
    rewritten,                \* topic_schema_definition as reassigned at line 42
    stage,                    \* position in the rewriting part of the function
    compiler,      \* protoc with the bq-schema plugin: proto text -> output
    templates,     \* the template files present under templates/
    protoFile,     \* target/pubsub.proto
    schemaFile,    \* target/pubsub/pubsub.schema
    datasetFile,   \* <output_dir>/dataset.yaml
    tableFile,     \* <output_dir>/table.yaml
    pc,            \* per invocation: the statement it is at
    args,          \* per invocation: its arguments
    loc,           \* per invocation: its local variables
    snap,          \* per invocation: the four files as they were when it started
    prev,          \* the arguments and results of the run before the current one
    runs           \* invocations started so far

textVars == <<topic_schema_definition, lines, processed_lines, rewritten, stage>>
envVars == <<compiler, templates>>
fileVars == <<protoFile, schemaFile, datasetFile, tableFile>>
procVars == <<pc, args, loc, snap, prev, runs>>
pipeVars == <<envVars, fileVars, procVars>>
vars == <<textVars, pipeVars>>

Chunks == {"\n", " ", ";", "/", "x", "reserved", "Reserved"}
Sources == SeqsUpTo(Chunks, MaxSrcLen)

TextInit ==
    /\ topic_schema_definition \in Sources
    /\ lines = <<>>
    /\ processed_lines = <<>>
    /\ rewritten = <<>>
    /\ stage = "start"
    /\ compiler = <<>> /\ templates = {}
    /\ protoFile = "ABSENT" /\ schemaFile = "ABSENT"
    /\ datasetFile = "ABSENT" /\ tableFile = "ABSENT"
    /\ pc = <<>> /\ args = <<>> /\ loc = <<>> /\ snap = <<>>
    /\ prev = "None" /\ runs = 0

DoSplit ==
    /\ stage = "start"
    /\ lines' = SplitLines(topic_schema_definition)
    /\ stage' = "split"
    /\ UNCHANGED <<topic_schema_definition, processed_lines, rewritten, pipeVars>>

DoProcess ==
    /\ stage = "split"
    /\ processed_lines' = ProcessLines(lines)
    /\ stage' = "processed"
    /\ UNCHANGED <<topic_schema_definition, lines, rewritten, pipeVars>>

DoJoin ==
    /\ stage = "processed"
    /\ rewritten' = Join(processed_lines, NL)
    /\ stage' = "joined"
    /\ UNCHANGED <<topic_schema_definition, lines, processed_lines, pipeVars>>

TextNext == DoSplit \/ DoProcess \/ DoJoin

SpecText == TextInit /\ [][TextNext]_vars

\* ------------------------------------------------------------ the pipeline
\* A value that may be missing is a sequence of length 0 or 1: None is Python's
\* None, a file that does not exist, or a compiler run that left no output.
None == <<>>
Some(x) == <<x>>
Absent == None

\* bq_schema.extend([...]) of generate_bigquery_schema
EnvelopeColumns ==
    << [name |-> "subscription_name", type |-> "STRING", mode |-> "NULLABLE"],
       [name |-> "message_id", type |-> "STRING", mode |-> "NULLABLE"],
       [name |-> "publish_time", type |-> "TIMESTAMP", mode |-> "NULLABLE"],
       [name |-> "attributes", type |-> "JSON", mode |-> "NULLABLE"] >>

\* Faulty variant: an envelope column is left out when the payload declares its name.
AugmentSchema_SkipDeclared(bq_schema) ==
    bq_schema \o SelectSeq(EnvelopeColumns,
                           LAMBDA e : \A i \in 1..Len(bq_schema) :
                                         bq_schema[i].name # e.name)

AugmentSchema(bq_schema) == bq_schema \o EnvelopeColumns

\* json.dumps(bq_schema, indent=2): the text that encodes the column list.
json_dumps(bq_schema) == [json |-> bq_schema, indent |-> 2]

\* Faulty variant: the last four entries are kept instead of the first four.
TruncateClustering_LastFour(clustering_fields) ==
    IF clustering_fields = None THEN None
    ELSE LET given == clustering_fields[1]
         IN  Some(SubSeq(given, IF Len(given) < 4 THEN 1 ELSE Len(given) - 3,
                         Len(given)))

\* clustering_fields[:4] when a list is given
TruncateClustering(clustering_fields) ==
    IF clustering_fields = None THEN None
    ELSE LET given == clustering_fields[1]
         IN  Some(SubSeq(given, 1, IF Len(given) < 4 THEN Len(given) ELSE 4))

\* resource_id.strip(...): the set of a space, a backtick, a double quote and a
\* single quote.  The backtick is written as the chunk BACKTICK.
Backtick == "BACKTICK"
QuoteChars == {" ", Backtick, "\"", "'"}
StripResourceId(resource_id) == StripChars(resource_id, QuoteChars)

\* Faulty variant: a two-part id (dataset.table) is completed with a default project.
SplitResourceId_DefaultProject(resource_id) ==
    LET parts == Split(StripResourceId(resource_id), <<".">>)
    IN  IF Len(parts) = 2 THEN <<<<"default">>>> \o parts ELSE parts

\* resource_id.split(".")
SplitResourceId(resource_id) == Split(StripResourceId(resource_id), <<".">>)

\* project_id, dataset_id, table_id = ...: the unpacking succeeds with exactly
\* three values and raises ValueError otherwise.
UnpackOk(parts) == Len(parts) = 3

\* Schema definitions found by search_yaml_files: "s1" and "s2" are well-formed
\* message definitions, "bad" is one proto_schema_parser rejects, and "none"
\* stands for a name no document matches (the list is empty, [0] raises).
GoodSources == {"s1", "s2"}
SchemaInputs == GoodSources \cup {"bad", "none"}
Found(src) == src # "none"
ParseOk(src) == src \in GoodSources

\* Generator().generate(proto_schema) after the package and the two imports
\* were appended to the parsed file.
GenerateProto(src) ==
    <<src, "package pubsub;", "import \"bq_table.proto\";",
      "import \"bq_field.proto\";">>

ProtoTexts == {GenerateProto(src) : src \in GoodSources}

\* What one protoc run leaves in target/pubsub/pubsub.schema: the emitted
\* column list, or the file as it was when protoc exits without output.
NoOutput == None
ProtocRun(proto, oldSchemaFile) ==
    IF proto \notin DOMAIN compiler \/ compiler[proto] = NoOutput
    THEN oldSchemaFile
    ELSE compiler[proto]

\* Faulty variant: the file is opened for appending, so what it held is kept.
OpenForWrite_Append(old) == IF old = Absent THEN Some(<<>>) ELSE old

\* open(path, "w") creates the file or truncates it; f.write(text) puts text
\* after what the file holds.  An existing file is Some(the texts written).
OpenForWrite(old) == Some(<<>>)
WriteText(file, text) == Some(file[1] \o <<text>>)

DatasetTemplate == "bigquery_dataset.yaml.jinja"
TableTemplate == "bigquery_table.yaml.jinja"

render_bigquery_dataset(tv) ==
    [template |-> DatasetTemplate,
     project_id |-> tv.project_id, dataset_id |-> tv.dataset_id]

render_bigquery_table(tv) ==
    [template |-> TableTemplate,
     project_id |-> tv.project_id, dataset_id |-> tv.dataset_id,
     table_id |-> tv.table_id, schema |-> tv.schema,
     partitioning_field |-> tv.partitioning_field]

NoLocals ==
    [clustering_fields |-> None, project_id |-> None, dataset_id |-> None,
     table_id |-> None, schema |-> None, error |-> "None"]

Files ==
    [proto |-> protoFile, schema |-> schemaFile,
     dataset |-> datasetFile, table |-> tableFile]

\* What a finished run produced: how it ended, the schema it returned and the
\* two output files as it left them.
Produced(p) ==
    [args |-> args[p], ended |-> pc[p], error |-> loc[p].error,
     schema |-> loc[p].schema, dataset |-> datasetFile, table |-> tableFile]

Finished(p) == pc[p] \in {"done", "failed", "returned"}

Fail(p, error) ==
    /\ pc' = [pc EXCEPT ![p] = "failed"]
    /\ loc' = [loc EXCEPT ![p].error = error]

\* An invocation begins with arguments a.
Begin(p, a) ==
    /\ runs' = runs + 1
    /\ args' = [args EXCEPT ![p] = a]
    /\ loc' = [loc EXCEPT ![p] = NoLocals]
    /\ snap' = [snap EXCEPT ![p] = Files]
    /\ prev' = IF Finished(p) THEN Some(Produced(p)) ELSE prev
    /\ pc' = [pc EXCEPT ![p] = IF a.caller = "main" THEN "lookup" ELSE "gtv"]
    /\ UNCHANGED <<textVars, envVars, fileVars>>

\* main: search_yaml_files(...)[0]
Lookup(p) ==
    /\ pc[p] = "lookup"
    /\ IF Found(args[p].src)
       THEN pc' = [pc EXCEPT ![p] = "gtv"] /\ UNCHANGED loc
       ELSE Fail(p, "IndexError")
    /\ UNCHANGED <<textVars, envVars, fileVars, args, snap, prev, runs>>

\* generate_template_variables up to the call of generate_bigquery_schema
ParseResourceId(p) ==
    /\ pc[p] = "gtv"
    /\ LET parts == SplitResourceId(args[p].resource_id)
           cf == TruncateClustering(args[p].clustering_fields)
       IN  IF UnpackOk(parts)
           THEN /\ loc' = [loc EXCEPT ![p].clustering_fields = cf,
                                      ![p].project_id = Some(parts[1]),
                                      ![p].dataset_id = Some(parts[2]),
                                      ![p].table_id = Some(parts[3])]
                /\ pc' = [pc EXCEPT ![p] = "rewrite"]
           ELSE /\ loc' = [loc EXCEPT ![p].clustering_fields = cf,
                                      ![p].error = "ValueError"]
                /\ pc' = [pc EXCEPT ![p] = "failed"]
    /\ UNCHANGED <<textVars, envVars, fileVars, args, snap, prev, runs>>

\* generate_bigquery_schema: the rewriting and Parser().parse
ParseSchema(p) ==
    /\ pc[p] = "rewrite"
    /\ IF ParseOk(args[p].src)
       THEN pc' = [pc EXCEPT ![p] = "write_proto"] /\ UNCHANGED loc
       ELSE Fail(p, "ParseError")
    /\ UNCHANGED <<textVars, envVars, fileVars, args, snap, prev, runs>>

\* with open("target/pubsub.proto", "w") as file: file.write(...)
WriteProto(p) ==
    /\ pc[p] = "write_proto"
    /\ protoFile' = WriteText(OpenForWrite(protoFile), GenerateProto(args[p].src))
    /\ pc' = [pc EXCEPT ![p] = "protoc"]
    /\ UNCHANGED <<textVars, envVars, schemaFile, datasetFile, tableFile,
                   args, loc, snap, prev, runs>>

\* subprocess.run(["protoc", ...]): compiles the file that is at
\* target/pubsub.proto now; the exit status is not looked at.
RunProtoc(p) ==
    /\ pc[p] = "protoc"
    /\ schemaFile' = ProtocRun(protoFile, schemaFile)
    /\ pc' = [pc EXCEPT ![p] = "read"]
    /\ UNCHANGED <<textVars, envVars, protoFile, datasetFile, tableFile,
                   args, loc, snap, prev, runs>>

\* json.load(open("target/pubsub/pubsub.schema")), the envelope columns, the
\* return of generate_bigquery_schema and of generate_template_variables
ReadSchema(p) ==
    /\ pc[p] = "read"
    /\ IF schemaFile = Absent
       THEN Fail(p, "FileNotFoundError")
       ELSE /\ loc' = [loc EXCEPT
                          ![p].schema =
                              Some(json_dumps(AugmentSchema(schemaFile[1])))]
            /\ pc' = [pc EXCEPT ![p] =
                         IF args[p].caller = "main" THEN "open_dataset"
                         ELSE "returned"]
    /\ UNCHANGED <<textVars, envVars, fileVars, args, snap, prev, runs>>

TemplateVariables(p) ==
    [project_id |-> loc[p].project_id, dataset_id |-> loc[p].dataset_id,
     table_id |-> loc[p].table_id, schema |-> loc[p].schema,
     partitioning_field |-> args[p].partitioning_field,
     clustering_fields |-> loc[p].clustering_fields]

\* main: with open(output_dir / "dataset.yaml", "w") as f
OpenDataset(p) ==
    /\ pc[p] = "open_dataset"
    /\ datasetFile' = OpenForWrite(datasetFile)
    /\ pc' = [pc EXCEPT ![p] = "render_dataset"]
    /\ UNCHANGED <<textVars, envVars, protoFile, schemaFile, tableFile,
                   args, loc, snap, prev, runs>>

\* main: f.write(render_bigquery_dataset(template_vars))
WriteDataset(p) ==
    /\ pc[p] = "render_dataset"
    /\ IF DatasetTemplate \in templates
       THEN /\ datasetFile' =
                   WriteText(datasetFile, render_bigquery_dataset(TemplateVariables(p)))
            /\ pc' = [pc EXCEPT ![p] = "open_table"]
            /\ UNCHANGED loc
       ELSE Fail(p, "TemplateNotFound") /\ UNCHANGED datasetFile
    /\ UNCHANGED <<textVars, envVars, protoFile, schemaFile, tableFile,
                   args, snap, prev, runs>>

\* main: with open(output_dir / "table.yaml", "w") as f
OpenTable(p) ==
    /\ pc[p] = "open_table"
    /\ tableFile' = OpenForWrite(tableFile)
    /\ pc' = [pc EXCEPT ![p] = "render_table"]
    /\ UNCHANGED <<textVars, envVars, protoFile, schemaFile, datasetFile,
                   args, loc, snap, prev, runs>>

\* main: f.write(render_bigquery_table(template_vars))
WriteTable(p) ==
    /\ pc[p] = "render_table"
    /\ IF TableTemplate \in templates
       THEN /\ tableFile' =
                   WriteText(tableFile, render_bigquery_table(TemplateVariables(p)))
            /\ pc' = [pc EXCEPT ![p] = "done"]
            /\ UNCHANGED loc
       ELSE Fail(p, "TemplateNotFound") /\ UNCHANGED tableFile
    /\ UNCHANGED <<textVars, envVars, protoFile, schemaFile, datasetFile,
                   args, snap, prev, runs>>

GtvStep(p) ==
    \/ ParseResourceId(p)
    \/ ParseSchema(p)
    \/ WriteProto(p)
    \/ RunProtoc(p)
    \/ ReadSchema(p)

\* ------------------------------------------------------ inputs and set-up
Procs == {"p1", "p2"}

\* Columns a compiler may emit: a payload field, and a payload field that has
\* the name of an envelope column.
Columns ==
    { [name |-> "id", type |-> "STRING", mode |-> "NULLABLE"],
      [name |-> "attributes", type |-> "STRING", mode |-> "REPEATED"] }
EmittedSchemas == SeqsUpTo(Columns, MaxEmitted)
Outcomes == {Some(c) : c \in SeqsUpTo(Columns, MaxCompiled)} \cup {NoOutput}

\* Resource ids given to main in the pipeline runs: a quoted three-part id and
\* a two-part id.
QuotedId == <<Backtick, "a", ".", "b", ".", "c", Backtick>>
TwoPartId == <<"a", ".", "b">>

MainArgs ==
    [src : SchemaInputs, resource_id : {QuotedId, TwoPartId},
     partitioning_field : {"created_at"}, clustering_fields : {None},
     caller : {"main"}]

NoArgs ==
    [src |-> "none", resource_id |-> <<>>, partitioning_field |-> "",
     clustering_fields |-> None, caller |-> "nobody"]

PipeInit ==
    /\ topic_schema_definition = <<>> /\ lines = <<>>
    /\ processed_lines = <<>> /\ rewritten = <<>> /\ stage = "unused"
    /\ protoFile = Absent /\ schemaFile = Absent
    /\ datasetFile = Absent /\ tableFile = Absent
    /\ pc = [p \in Procs |-> "idle"]
    /\ args = [p \in Procs |-> NoArgs]
    /\ loc = [p \in Procs |-> NoLocals]
    /\ snap = [p \in Procs |-> Files]
    /\ prev = None
    /\ runs = 0

\* Runs of main one after the other, in one working directory.
SeqInit ==
    /\ PipeInit
    /\ templates \in SUBSET {DatasetTemplate, TableTemplate}
    /\ compiler \in [{Some(<<t>>) : t \in ProtoTexts} -> Outcomes]

StartMain(p) ==
    /\ pc[p] \in {"idle", "done", "failed"}
    /\ runs < MaxRuns
    /\ \E a \in MainArgs : Begin(p, a)

MainStep(p) ==
    \/ Lookup(p)
    \/ GtvStep(p)
    \/ OpenDataset(p)
    \/ WriteDataset(p)
    \/ OpenTable(p)
    \/ WriteTable(p)

SeqNext == StartMain("p1") \/ MainStep("p1")

SpecSeq == SeqInit /\ [][SeqNext]_vars

\* Two runs of main at the same time, in one working directory.
StartOnce(p) ==
    /\ pc[p] = "idle"
    /\ \E a \in MainArgs : Begin(p, a)

ConcNext == \E p \in Procs : StartOnce(p) \/ MainStep(p)

SpecConc == SeqInit /\ [][ConcNext]_vars

\* One call of generate_template_variables, its inputs varied one at a time:
\* the emitted schema, the resource id, the clustering fields.
IdChars == QuoteChars \cup {".", "a", "b"}
ResourceIds == SeqsUpTo(IdChars, MaxIdLen)
ClusteringLists == SeqsUpTo({"f1", "f2"}, MaxClustering)

S1File == Some(<<GenerateProto("s1")>>)
CompilerEmitting(out) ==
    [t \in {Some(<<x>>) : x \in ProtoTexts} |->
        IF t = S1File THEN Some(out) ELSE NoOutput]
DefaultCompiler == CompilerEmitting(<<CHOOSE c \in Columns : c.name = "id">>)

CallArgsOf(src, rid, cf) ==
    [src |-> src, resource_id |-> rid, partitioning_field |-> "publish_time",
     clustering_fields |-> cf, caller |-> "api"]

CallArgs ==
    IF compiler = DefaultCompiler
    THEN {CallArgsOf("s1", rid, None) : rid \in ResourceIds}
         \cup {CallArgsOf("s1", QuotedId, Some(cf)) : cf \in ClusteringLists}
         \cup {CallArgsOf(src, rid, None) :
                  src \in {"s2", "bad"}, rid \in {QuotedId, TwoPartId}}
    ELSE {CallArgsOf("s1", QuotedId, None)}

CallInit ==
    /\ PipeInit
    /\ templates = {DatasetTemplate, TableTemplate}
    /\ compiler \in {CompilerEmitting(out) : out \in EmittedSchemas}

CallOnce(p) ==
    /\ pc[p] = "idle"
    /\ \E a \in CallArgs : Begin(p, a)

CallNext == CallOnce("p1") \/ GtvStep("p1")

SpecCall == CallInit /\ [][CallNext]_vars

\* ------------------------------------------------- claims on the rewriter
SourceLines == Split(topic_schema_definition, NL)
KeptLines == SelectSeq(SourceLines, LAMBDA l : ~SkipLine(l))

HasComment(l) == Find(l, Slashes) # 0
BeforeComment(l) == IF HasComment(l) THEN Take(l, Find(l, Slashes) - 1) ELSE l
AfterComment(l) == Drop(l, Find(l, Slashes) + 1)

\* The rewritten line when the override is the text type.
Annotated(l, type) ==
    RStripChars(StripChars(BeforeComment(l), Whitespace), {";"})
    \o <<" ">> \o type_override_template(StripChars(type, Whitespace)) \o <<";">>

WholeRest(l) == IF HasComment(l) THEN Annotated(l, AfterComment(l)) ELSE l
UpToNextComment(l) ==
    IF HasComment(l) THEN Annotated(l, BeforeComment(AfterComment(l))) ELSE l

\* C6 as stated: every line that is not skipped is split once at its first
\* "//"; with a comment, the rewritten line is the declaration (trimmed, trailing
\* ";" removed), a type_override option whose value is the WHOLE trimmed text
\* after that first "//", and ";"; without one it is unchanged; order is kept.
C6_WholeRestIsOverride ==
    stage \in {"processed", "joined"} =>
        processed_lines = [i \in 1..Len(KeptLines) |-> WholeRest(KeptLines[i])]

\* C6 amended: as above, but the type_override value is the trimmed text between
\* the first "//" and the next "//" of the line (all the text after the first
\* "//" when there is no other); what follows a second "//" is discarded.
C6_OverrideUpToNextComment ==
    stage \in {"processed", "joined"} =>
        /\ processed_lines =
               [i \in 1..Len(KeptLines) |-> UpToNextComment(KeptLines[i])]
        /\ stage = "joined" => rewritten = Join(processed_lines, NL)

\* C6 witness: a source of two kept lines, the second with a declaration ending
\* in ";" and a comment, has been rewritten.
C6_Witness ==
    /\ stage = "joined"
    /\ \E i \in 1..Len(KeptLines) :
          /\ HasComment(KeptLines[i])
          /\ BeforeComment(KeptLines[i]) = <<"x", ";">>
          /\ AfterComment(KeptLines[i]) = <<"x">>
          /\ processed_lines[i] =
                 <<"x", " ">> \o type_override_template(<<"x">>) \o <<";">>

\* A line of a message body that begins with "reserved" in any letter case,
\* indentation allowed.
IsReservedLine(l) == StartsWith(Lower(LStripChars(l, Whitespace)), Reserved)

NonReservedLines == SelectSeq(SourceLines, LAMBDA l : ~IsReservedLine(l))

\* C7 as stated: the rewritten text is made of exactly the source lines that do
\* not begin with "reserved" (any case, indentation allowed), so no reserved
\* line reaches the parser and none yields a type_override option.
C7_ReservedLinesDropped ==
    stage \in {"processed", "joined"} =>
        processed_lines =
            [i \in 1..Len(NonReservedLines) |->
                ProcessLine(Split(NonReservedLines[i], Slashes))]

\* ------------------------------------------------- claims on the pipeline
\* The file target/pubsub.proto as invocation p writes it, and what the
\* compiler emits for it.
OwnProtoFile(p) == Some(<<GenerateProto(args[p].src)>>)
OwnOutput(p) == compiler[OwnProtoFile(p)]
Compiles(p) == args[p].src \in GoodSources /\ OwnOutput(p) # NoOutput

\* The four envelope columns as the specification lists them.
C4_Envelope ==
    << [name |-> "subscription_name", type |-> "STRING", mode |-> "NULLABLE"],
       [name |-> "message_id", type |-> "STRING", mode |-> "NULLABLE"],
       [name |-> "publish_time", type |-> "TIMESTAMP", mode |-> "NULLABLE"],
       [name |-> "attributes", type |-> "JSON", mode |-> "NULLABLE"] >>

\* C1: of two invocations running at the same time, each one whose own schema
\* compiles reads back the compiler output of its own schema source.
C1_ReadsOwnOutput ==
    \A p \in Procs :
        (Compiles(p) /\ loc[p].schema # None) =>
            loc[p].schema = Some(json_dumps(OwnOutput(p)[1] \o C4_Envelope))

\* C2: a run of main that ends in a fatal error has created or changed neither
\* dataset.yaml nor table.yaml; a run that succeeds has written both.
C2_AllOrNothing ==
    \A p \in Procs :
        /\ pc[p] = "failed" =>
               datasetFile = snap[p].dataset /\ tableFile = snap[p].table
        /\ pc[p] = "done" =>
               /\ datasetFile =
                      Some(<<render_bigquery_dataset(TemplateVariables(p))>>)
               /\ tableFile =
                      Some(<<render_bigquery_table(TemplateVariables(p))>>)

\* C3: a run whose compiler invocation fails and leaves no output returns no
\* schema and does not end successfully, whatever earlier runs left behind.
C3_CompilerFailureIsFatal ==
    \A p \in Procs :
        (args[p].src \in GoodSources /\ OwnOutput(p) = NoOutput) =>
            loc[p].schema = None /\ pc[p] # "done"

\* C4: the schema generate_bigquery_schema returns is the emitted column
\* sequence C, in order, followed by the four envelope columns; its length is
\* Len(C) + 4.
C4_EnvelopeAppended ==
    \A p \in Procs :
        pc[p] = "returned" =>
            LET C == OwnOutput(p)[1]
                schema == loc[p].schema[1].json
            IN  /\ schema = C \o C4_Envelope
                /\ Len(schema) = Len(C) + 4

\* C4 witness: a call has returned for a schema whose emitted columns are an
\* "attributes" column followed by "id" columns.
C4_Witness ==
    /\ pc["p1"] = "returned"
    /\ Len(OwnOutput("p1")[1]) = 3
    /\ OwnOutput("p1")[1][1].name = "attributes"
    /\ OwnOutput("p1")[1][2].name = "id"

\* The segments of a resource id: the id without leading and trailing quote
\* characters, split on ".".
Segments(resource_id) == Split(StripChars(resource_id, QuoteChars), <<".">>)
ThreeNonEmpty(segs) == Len(segs) = 3 /\ \A i \in 1..3 : segs[i] # <<>>

\* C5: the resource id is parsed if and only if it has exactly three segments
\* and none of them is empty, and then project, dataset and table are the
\* segments in order; otherwise the call fails.
C5_ThreeNonEmptySegments ==
    \A p \in Procs :
        pc[p] \notin {"idle", "lookup", "gtv"} =>
            LET segs == Segments(args[p].resource_id)
            IN  IF ThreeNonEmpty(segs)
                THEN /\ loc[p].project_id = Some(segs[1])
                     /\ loc[p].dataset_id = Some(segs[2])
                     /\ loc[p].table_id = Some(segs[3])
                ELSE pc[p] = "failed" /\ loc[p].error = "ValueError"

\* C8: the clustering_fields of the returned bundle are the first
\* min(Len(L), 4) entries of the list L given, in order; None stays None.
C8_ClusteringTruncated ==
    \A p \in Procs :
        pc[p] = "returned" =>
            LET got == TemplateVariables(p).clustering_fields
                given == args[p].clustering_fields
            IN  IF given = None THEN got = None
                ELSE /\ got # None
                     /\ Len(got[1]) = (IF Len(given[1]) < 4 THEN Len(given[1])
                                       ELSE 4)
                     /\ \A i \in 1..Len(got[1]) : got[1][i] = given[1][i]

\* C8 witness: a call given five clustering fields, not all the same, returned.
C8_Witness ==
    /\ pc["p1"] = "returned"
    /\ args["p1"].clustering_fields # None
    /\ Len(args["p1"].clustering_fields[1]) = 5
    /\ args["p1"].clustering_fields[1][1] # args["p1"].clustering_fields[1][5]

\* C9: a run of main that follows a run with the same arguments ends the same
\* way, returns the same schema and leaves the same dataset.yaml and table.yaml.
C9_SecondRunSame ==
    \A p \in Procs :
        (Finished(p) /\ prev # None /\ prev[1].args = args[p]) =>
            Produced(p) = prev[1]

\* C9 witness: the third run of a sequence repeats the second and both wrote the
\* two output files, for a schema the compiler emits nothing for: a first run,
\* of another schema, left the compiler output that both of them read.
C9_Witness ==
    /\ pc["p1"] = "done"
    /\ runs = 3
    /\ prev # None
    /\ prev[1].args = args["p1"]
    /\ prev[1].ended = "done"
    /\ OwnOutput("p1") = NoOutput
    /\ schemaFile # Absent

\* C10: a call whose resource id does not split into exactly three segments
\* fails before the proto file is written and before the compiler runs: the
\* working files stay as they were when the call began.
C10_BadIdLeavesFilesAlone ==
    \A p \in Procs :
        (pc[p] # "idle" /\ Len(Segments(args[p].resource_id)) # 3) =>
            /\ pc[p] \in {"lookup", "gtv", "failed"}
            /\ protoFile = snap[p].proto
            /\ schemaFile = snap[p].schema

\* C10 witness: a run with a two-part id failed on the id, in a directory where
\* an earlier run left a proto file and compiler output.
C10_Witness ==
    /\ pc["p1"] = "failed"
    /\ loc["p1"].error = "ValueError"
    /\ Len(Segments(args["p1"].resource_id)) = 2
    /\ args["p1"].src \in GoodSources
    /\ protoFile # Absent
    /\ schemaFile # Absent
====
